---- MODULE Spec2Model ----
(***************************************************************************)
(* Model of the Mirror Trade Processor script (src/app.py).                *)
(*                                                                         *)
(* Text is modelled as a sequence of one-character strings, so that        *)
(* clean_name, str.upper, str.strip, str.endswith, str.split and slicing   *)
(* are computed character by character as the library computes them.       *)
(* A spreadsheet cell is a record [t, v]: t = "str" (v a character         *)
(* sequence), "num" (v an integer), "ts" (v a timestamp, a cell the        *)
(* spreadsheet stores as a date) or "nan" (an empty cell / NaN / NaT).     *)
(* A row is a sequence of cells, one per column of orig_cols; a data frame *)
(* is a sequence of rows.  Column labels are unique, as read_excel makes   *)
(* them.                                                                   *)
(***************************************************************************)
EXTENDS Integers, Sequences, FiniteSets, TLC

VARIABLES
    pc,          \* position of the script
    orig_cols,   \* df_raw.columns.tolist()
    df_raw,      \* the uploaded table
    col,         \* role -> bound column label, or None
    missing,     \* list of unbound required roles
    is_inr,      \* boolean mask over the rows of df
    df_non_inr,  \* rows of df whose mask is FALSE
    mirrored,    \* the mirrored rows being derived
    final_df,    \* the table written to the download
    output,      \* which download was offered: "none", "original", "mirrored"
    msgs         \* the st.error / st.warning / st.info / st.success messages shown

vars == <<pc, orig_cols, df_raw, col, missing, is_inr, df_non_inr, mirrored,
          final_df, output, msgs>>

\* Largest number of rows of an uploaded table.
MaxRows == 2

(***************************************************************************)
(* Characters and strings                                                  *)
(***************************************************************************)
LowerChars == <<"a","b","c","d","e","f","g","h","i","j","k","l","m",
                "n","o","p","q","r","s","t","u","v","w","x","y","z">>
UpperChars == <<"A","B","C","D","E","F","G","H","I","J","K","L","M",
                "N","O","P","Q","R","S","T","U","V","W","X","Y","Z">>
DigitChars == <<"0","1","2","3","4","5","6","7","8","9">>

Range(s) == {s[i] : i \in DOMAIN s}

IndexIn(s, x) == CHOOSE i \in DOMAIN s : s[i] = x

LowerSet == Range(LowerChars)
UpperSet == Range(UpperChars)
DigitSet == Range(DigitChars)
AlnumSet == LowerSet \cup UpperSet \cup DigitSet

ToUpperCh == [c \in LowerSet |-> UpperChars[IndexIn(LowerChars, c)]]
ToLowerCh == [c \in UpperSet |-> LowerChars[IndexIn(UpperChars, c)]]

\* one character of str.upper() / str.lower()
UpperCh(c) == IF c \in LowerSet THEN ToUpperCh[c] ELSE c
LowerCh(c) == IF c \in UpperSet THEN ToLowerCh[c] ELSE c

Upper(s) == [i \in DOMAIN s |-> UpperCh(s[i])]
Lower(s) == [i \in DOMAIN s |-> LowerCh(s[i])]

\* the class [0-9a-zA-Z] of the regular expression in clean_name
IsAlnum(c) == c \in AlnumSet

\* str.lstrip / str.rstrip / str.strip with the set of characters to remove
RECURSIVE LStripSet(_, _)
LStripSet(s, cs) ==
    IF s # <<>> /\ Head(s) \in cs THEN LStripSet(Tail(s), cs) ELSE s

RECURSIVE RStripSet(_, _)
RStripSet(s, cs) ==
    IF s # <<>> /\ s[Len(s)] \in cs THEN RStripSet(SubSeq(s, 1, Len(s) - 1), cs) ELSE s

StripSet(s, cs) == RStripSet(LStripSet(s, cs), cs)

\* str.strip() with no argument: surrounding whitespace
Strip(s) == StripSet(s, {" ", "\t", "\n"})

\* str.endswith
EndsWith(s, q) ==
    /\ Len(q) <= Len(s)
    /\ SubSeq(s, Len(s) - Len(q) + 1, Len(s)) = q

\* s[-n:]
LastN(s, n) == IF Len(s) <= n THEN s ELSE SubSeq(s, Len(s) - n + 1, Len(s))

\* s.split("-")[-1]: the text after the last "-" (all of s when it has none)
RECURSIVE AfterLastDash(_)
AfterLastDash(s) ==
    IF s = <<>> THEN <<>>
    ELSE IF s[Len(s)] = "-" THEN <<>>
    ELSE Append(AfterLastDash(SubSeq(s, 1, Len(s) - 1)), s[Len(s)])

\* re.sub(r'[^0-9a-zA-Z]+', '_', s): every maximal run of other characters
\* becomes one "_"
RECURSIVE SubNonAlnum(_)
SubNonAlnum(s) ==
    IF s = <<>> THEN <<>>
    ELSE IF IsAlnum(Head(s)) THEN <<Head(s)>> \o SubNonAlnum(Tail(s))
    ELSE IF Len(s) > 1 /\ ~IsAlnum(s[2]) THEN SubNonAlnum(Tail(s))
    ELSE <<"_">> \o SubNonAlnum(Tail(s))

(***************************************************************************)
(* Cells                                                                   *)
(***************************************************************************)
StrCell(s) == [t |-> "str", v |-> s]
NumCell(n) == [t |-> "num", v |-> n]
TsCell(d)  == [t |-> "ts",  v |-> d]
NaN        == [t |-> "nan", v |-> 0]

\* The unbound role (Python None).  No column label is the empty text, and
\* the empty text is as falsy as None where the script tests truthiness.
None == <<>>

IsDigits(s) == s # <<>> /\ \A i \in DOMAIN s : s[i] \in DigitSet

\* value of a string of decimal digits
RECURSIVE DigitsValue(_)
DigitsValue(s) ==
    IF s = <<>> THEN 0
    ELSE 10 * DigitsValue(SubSeq(s, 1, Len(s) - 1)) + (IndexIn(DigitChars, s[Len(s)]) - 1)

\* decimal digits of a natural number
RECURSIVE NatDigits(_)
NatDigits(n) ==
    IF n < 10 THEN <<DigitChars[n + 1]>>
    ELSE Append(NatDigits(n \div 10), DigitChars[(n % 10) + 1])

\* str(x) / Series.astype(str) of a cell
AsStr(c) ==
    CASE c.t = "str" -> c.v
      [] c.t = "nan" -> <<"n","a","n">>
      [] c.t = "num" /\ c.v >= 0 -> NatDigits(c.v)

\* pd.to_numeric(x, errors="coerce") of a cell: text that is not a number
\* becomes NaN
ToNumeric(c) ==
    CASE c.t = "num" -> c
      [] c.t = "nan" -> NaN
      [] c.t = "str" -> IF IsDigits(Strip(c.v)) THEN NumCell(DigitsValue(Strip(c.v))) ELSE NaN

\* the product of two numeric cells; NaN absorbs
Times(a, b) == IF a.t = "num" /\ b.t = "num" THEN NumCell(a.v * b.v) ELSE NaN

\* pd.to_datetime(x, errors="coerce") of a cell: a stored date stays, text
\* of the form YYYYMMDD parses to that day, other text becomes NaT.
\* Timestamps are numbered YYYYMMDD, which orders them as the calendar does.
ToDatetime(c) ==
    CASE c.t = "ts"  -> c
      [] c.t = "nan" -> NaN
      [] c.t = "str" ->
            IF /\ IsDigits(c.v) /\ Len(c.v) = 8
               /\ DigitsValue(SubSeq(c.v, 5, 6)) \in 1..12
               /\ DigitsValue(SubSeq(c.v, 7, 8)) \in 1..31
            THEN TsCell(DigitsValue(c.v))
            ELSE NaN

(***************************************************************************)
(* Helper functions of the script                                          *)
(***************************************************************************)
\* def clean_name(s)
clean_name(s) == Lower(StripSet(SubNonAlnum(s), {"_"}))

\* inner loop of find_col: the leftmost column whose cleaned label is pat_clean
RECURSIVE FirstColumn(_, _)
FirstColumn(cols, pat_clean) ==
    IF cols = <<>> THEN None
    ELSE IF clean_name(Head(cols)) = pat_clean THEN Head(cols)
    ELSE FirstColumn(Tail(cols), pat_clean)

\* find_col with its loops exchanged: the leftmost column that equals any
\* candidate, whatever the candidate's priority
RECURSIVE find_col_column_first(_, _)
find_col_column_first(cols, patterns) ==
    IF cols = <<>> THEN None
    ELSE IF \E j \in DOMAIN patterns : clean_name(Head(cols)) = clean_name(patterns[j])
         THEN Head(cols)
         ELSE find_col_column_first(Tail(cols), patterns)

\* def find_col(orig_cols, patterns), called with a list of patterns
RECURSIVE find_col(_, _)
find_col(cols, patterns) ==
    IF patterns = <<>> THEN None
    ELSE LET c == FirstColumn(cols, clean_name(Head(patterns)))
         IN  IF c # None THEN c ELSE find_col(cols, Tail(patterns))

common_quotes == << <<"U","S","D","T">>, <<"B","U","S","D">>, <<"U","S","D">>,
                    <<"E","T","H">>, <<"B","T","C">>, <<"I","N","R">> >>

\* the loop over common_quotes: the first entry s ends with, else s[-3:]
RECURSIVE FirstQuote(_, _)
FirstQuote(s, quotes) ==
    IF quotes = <<>> THEN LastN(s, 3)
    ELSE IF EndsWith(s, Head(quotes)) THEN Head(quotes)
    ELSE FirstQuote(s, Tail(quotes))

\* the text after the first "-" (s.split("-", 1)[1])
RECURSIVE AfterFirstDash(_)
AfterFirstDash(s) ==
    IF s = <<>> THEN <<>>
    ELSE IF Head(s) = "-" THEN Tail(s)
    ELSE AfterFirstDash(Tail(s))

\* extract_quote taking what follows the first "-" instead of the last
extract_quote_first_dash(market_str) ==
    LET s == Strip(Upper(market_str))
    IN  IF "-" \in Range(s) THEN AfterFirstDash(s) ELSE FirstQuote(s, common_quotes)

\* def extract_quote(market_str), on the text str(market_str)
extract_quote(market_str) ==
    LET s == Strip(Upper(market_str))
    IN  IF "-" \in Range(s) THEN AfterLastDash(s) ELSE FirstQuote(s, common_quotes)

\* a flip that turns SELL into BUY and leaves BUY as it is
FlipTradeTypeSellOnly(x) ==
    IF x = <<"S","E","L","L">> THEN <<"B","U","Y">> ELSE x

\* the lambda of the buy/sell flip, applied to the upper-cased text
FlipTradeType(x) ==
    IF x = <<"S","E","L","L">> THEN <<"B","U","Y">>
    ELSE IF x = <<"B","U","Y">> THEN <<"S","E","L","L">>
    ELSE x

(***************************************************************************)
(* Roles                                                                   *)
(***************************************************************************)
Roles == {"market", "date", "trade_type", "quantity", "price", "total", "usd_inr"}

required == <<"market", "date", "trade_type", "quantity", "price", "total">>

\* the candidate labels of each role, in priority order
Patterns(role) ==
    CASE role = "market" ->
        <<<<"m","a","r","k","e","t">>,
          <<"p","a","i","r">>,
          <<"m","a","r","k","e","t","_","2">>>>
    [] role = "date" ->
        <<<<"d","a","t","e">>,
          <<"t","r","a","d","e"," ","d","a","t","e">>,
          <<"t","r","a","d","e","_","d","a","t","e">>>>
    [] role = "trade_type" ->
        <<<<"t","r","a","d","e"," ","t","y","p","e">>,
          <<"t","r","a","d","e","_","t","y","p","e">>,
          <<"s","i","d","e">>,
          <<"a","c","t","i","o","n">>>>
    [] role = "quantity" ->
        <<<<"q","u","a","n","t","i","t","y">>,
          <<"q","t","y">>,
          <<"t","o","t","a","l","v","o","l","u","m","e">>,
          <<"t","o","t","a","l","_","v","o","l","u","m","e">>>>
    [] role = "price" ->
        <<<<"p","r","i","c","e">>,
          <<"f","i","n","a","l"," ","p","r","i","c","e">>,
          <<"r","a","t","e">>,
          <<"a","c","t","u","a","l","r","a","t","e">>>>
    [] role = "total" ->
        <<<<"t","o","t","a","l">>,
          <<"a","m","o","u","n","t">>,
          <<"t","o","t","a","l","_","i","n","r">>,
          <<"g","r","o","s","s","_","a","m","o","u","n","t">>>>
    [] role = "usd_inr" ->
        <<<<"u","s","d","_","i","n","r","_","r","a","t","e">>,
          <<"u","s","d","_","i","n","r">>,
          <<"u","s","d","-","i","n","r">>,
          <<"u","s","d"," ","i","n","r">>>>

\* col = { role: find_col(orig_cols, [...]) }
DetectColumns(cols) == [r \in Roles |-> find_col(cols, Patterns(r))]

\* the report stopping at the first unbound required role
MissingRolesFirstOnly(c) ==
    LET m == SelectSeq(required, LAMBDA r : c[r] = None)
    IN  IF m = <<>> THEN m ELSE <<Head(m)>>

\* missing = [r for r in required if col.get(r) is None]
MissingRoles(c) == SelectSeq(required, LAMBDA r : c[r] = None)

(***************************************************************************)
(* Data frame operations of the processing block                           *)
(***************************************************************************)
INR == <<"I","N","R">>

\* df[label] of one row, and the row with that cell replaced
Cell(row, label) == row[IndexIn(orig_cols, label)]
WithCell(row, label, c) == [row EXCEPT ![IndexIn(orig_cols, label)] = c]

\* one entry of is_inr = df[mkt_col].astype(str).str.upper().str.endswith("INR")
IsInrCell(c) == EndsWith(Upper(AsStr(c)), INR)

IsInrMask(df) == [i \in DOMAIN df |-> IsInrCell(Cell(df[i], col["market"]))]

\* df[mask] / df[~mask]: the rows whose mask entry is keep, in order
RECURSIVE SelectRows(_, _, _)
SelectRows(df, mask, keep) ==
    IF df = <<>> THEN <<>>
    ELSE IF Head(mask) = keep
         THEN <<Head(df)>> \o SelectRows(Tail(df), Tail(mask), keep)
         ELSE SelectRows(Tail(df), Tail(mask), keep)

\* mirrored[mkt_col] = mirrored[mkt_col].apply(extract_quote) + "INR"
MirrorMarket(c) == StrCell(extract_quote(AsStr(c)) \o INR)

\* mirrored[tt_col] = mirrored[tt_col].astype(str).str.upper().apply(flip)
MirrorTradeType(c) == StrCell(FlipTradeType(Upper(AsStr(c))))

\* one row of "Prepare mirrored rows": market rewritten, trade type flipped,
\* quantity and every other column copied
MirrorRow(row) ==
    LET r1 == WithCell(row, col["market"], MirrorMarket(Cell(row, col["market"])))
    IN  WithCell(r1, col["trade_type"], MirrorTradeType(Cell(r1, col["trade_type"])))

\* the conversion that scales the price and leaves the total as it was
ConvertRowPriceOnly(row) ==
    LET rate == ToNumeric(Cell(row, col["usd_inr"]))
        r1 == WithCell(row, col["price"], Times(ToNumeric(Cell(row, col["price"])), rate))
    IN  WithCell(r1, col["usd_inr"], NumCell(1))

\* one row of the conversion under "if usd_col": price and total times the
\* rate, each coerced to a number, then the rate column set to 1
ConvertRow(row) ==
    LET rate == ToNumeric(Cell(row, col["usd_inr"]))
        r1 == WithCell(row, col["price"], Times(ToNumeric(Cell(row, col["price"])), rate))
        r2 == WithCell(r1, col["total"], Times(ToNumeric(Cell(r1, col["total"])), rate))
    IN  WithCell(r2, col["usd_inr"], NumCell(1))

\* the concatenation of the non-INR rows alone with the mirrored rows
ConcatNonInr(df, mir) == SelectRows(df, IsInrMask(df), FALSE) \o mir

\* pd.concat([df, mirrored], ignore_index=True, sort=False)
Concat(df, mir) == df \o mir

\* final_df[date_col] = pd.to_datetime(final_df[date_col], errors="coerce")
ParseDates(df) ==
    [i \in DOMAIN df |-> WithCell(df[i], col["date"], ToDatetime(Cell(df[i], col["date"])))]

\* the order sort_values gives two date cells: ascending, NaT last
DateLeq(a, b) == b.t = "nan" \/ (a.t = "ts" /\ b.t = "ts" /\ a.v <= b.v)

\* The index orders df.sort_values(by=date_col) may produce over the index
\* set S: ascending by date with NaT last.  The default sort kind is not
\* stable, so rows with equal dates may come out in any order.
RECURSIVE SortOrders(_, _)
SortOrders(df, S) ==
    IF S = {} THEN {<<>>}
    ELSE UNION {{<<i>> \o rest : rest \in SortOrders(df, S \ {i})} :
                i \in {j \in S : \A k \in S :
                          DateLeq(Cell(df[j], col["date"]), Cell(df[k], col["date"]))}}

\* rows taken in the given index order, re-indexed from 1 (reset_index)
Take(df, order) == [k \in DOMAIN order |-> df[order[k]]]

(***************************************************************************)
(* Uploaded files                                                          *)
(***************************************************************************)
HMarket    == <<"M","a","r","k","e","t">>
HDate      == <<"D","a","t","e">>
HTradeType == <<"T","r","a","d","e"," ","T","y","p","e">>
HQuantity  == <<"Q","u","a","n","t","i","t","y">>
HPrice     == <<"P","r","i","c","e">>
HTotal     == <<"T","o","t","a","l">>
HUsdInr    == <<"U","S","D","_","I","N","R">>

\* the plain header, with and without the optional rate column
PlainHeader(withRate) ==
    IF withRate THEN <<HMarket, HDate, HTradeType, HQuantity, HPrice, HTotal, HUsdInr>>
    ELSE <<HMarket, HDate, HTradeType, HQuantity, HPrice, HTotal>>

\* Header variants, one label chosen per column: labels that differ from
\* the candidates in case, punctuation and spacing, lower-priority
\* candidates, two columns of one role, and labels that only contain or
\* extend a candidate.
HeaderChoices ==
    << {<<"P","a","i","r">>, <<"M","a","r","k","e","t"," ","N","a","m","e">>,
        <<"M","A","R","K","E","T"," ">>},
       {<<"M","a","r","k","e","t">>, <<"m","a","r","k","e","t","_","2">>, <<"M","k","t">>},
       {<<"T","r","a","d","e","-","D","a","t","e">>, <<"D","a","t","e","d">>},
       {<<"T","r","a","d","e","_","T","y","p","e">>, <<" ","S","I","D","E">>},
       {<<"Q","t","y">>, <<"Q","u","a","n","t","i","t","y","!">>,
        <<"Q","u","a","n","t","i","t","i","e","s">>},
       {<<"F","i","n","a","l"," "," ","P","r","i","c","e">>, <<"R","a","t","e">>},
       {<<"T","O","T","A","L">>, <<"G","r","o","s","s"," ","A","m","o","u","n","t">>},
       {<<"U","S","D","-","I","N","R">>, <<"u","s","d"," ","i","n","r"," ","r","a","t","e">>,
        <<"U","S","D","I","N","R">>} >>

\* every header made of one label from each set of choices, in order
RECURSIVE HeadersFrom(_)
HeadersFrom(choices) ==
    IF choices = <<>> THEN {<<>>}
    ELSE {<<h>> \o rest : h \in Head(choices), rest \in HeadersFrom(Tail(choices))}

VariantHeaders == HeadersFrom(HeaderChoices)

\* the table uploaded under a variant header: two market-like columns, so
\* that the column bound to the market role decides which row is mirrored
VariantTable ==
    << <<StrCell(<<"B","T","C","-","U","S","D","T">>), StrCell(<<"U","S","D","I","N","R">>),
         TsCell(20240102), StrCell(<<"b","u","y">>), NumCell(2),
         NumCell(50000), NumCell(100000), NumCell(83)>>,
       <<StrCell(<<"E","T","H","I","N","R">>), StrCell(<<"E","T","H","B","T","C">>),
         TsCell(20240101), StrCell(<<"S","E","L","L">>), NumCell(1),
         NumCell(10), NumCell(10), NumCell(80)>> >>

Markets ==
    { <<"B","T","C","-","U","S","D","T">>, <<"E","T","H","B","T","C">>, <<"X","Y","Z">>,
      <<"u","s","d","i","n","r">>, <<"U","S","D","I","N","R"," ">>,
      <<" ","b","t","c","-","u","s","d","t">>, <<"F","O","O","B","U","S","D">>,
      <<"A","-","B","-","U","S","D">> }

TradeTypes == { <<"b","u","y">>, <<"S","E","L","L">>, <<"H","o","l","d">> }

Dates == { TsCell(20240102), TsCell(20240101),
           StrCell(<<"2","0","2","4","0","1","0","3">>), StrCell(<<"t","b","d">>), NaN }

Prices == { NumCell(50000), StrCell(<<"a","b","c">>) }
Totals == { NumCell(100000), NaN }
Rates  == { NumCell(83), StrCell(<<"8","3">>), StrCell(<<"t","b","d">>) }

\* a row under the plain header
PlainRow(m, d, tt, q, p, tot, r, withRate) ==
    IF withRate THEN <<StrCell(m), d, StrCell(tt), NumCell(q), p, tot, r>>
    ELSE <<StrCell(m), d, StrCell(tt), NumCell(q), p, tot>>

\* rows that vary the market symbol, and rows that vary the trade type
TradeRows(w) ==
    {PlainRow(m, TsCell(20240105), <<"b","u","y">>, 2,
              NumCell(50000), NumCell(100000), NumCell(83), w) : m \in Markets}
    \cup
    {PlainRow(<<"B","T","C","-","U","S","D","T">>, TsCell(20240105), tt, 2,
              NumCell(50000), NumCell(100000), NumCell(83), w) : tt \in TradeTypes}

\* rows that vary the date
DatedRows(w) ==
    {PlainRow(m, d, <<"B","U","Y">>, 2, NumCell(50000), NumCell(100000), NumCell(83), w) :
        m \in {<<"B","T","C","-","U","S","D","T">>, <<"U","S","D","I","N","R">>}, d \in Dates}

\* rows that vary price, total and rate, and one INR row
PricedRows(w) ==
    {PlainRow(<<"B","T","C","-","U","S","D","T">>, TsCell(20240105), <<"B","U","Y">>, 2,
              p, tot, r, w) : p \in Prices, tot \in Totals, r \in Rates}
    \cup
    {PlainRow(<<"U","S","D","I","N","R">>, TsCell(20240105), <<"S","E","L","L">>, 3,
              NumCell(10), NumCell(30), NumCell(1), w)}

\* tables of at most MaxRows rows
Tables(rows) == UNION {[1..n -> rows] : n \in 0..MaxRows}

\* tables whose rows are dated one day apart, latest first
Redated(df) == [i \in DOMAIN df |-> [df[i] EXCEPT ![2] = TsCell(20240120 - i)]]

(***************************************************************************)
(* The script                                                              *)
(***************************************************************************)
\* A readable file has been uploaded; nothing has been computed yet.
Init ==
    /\ pc = "uploaded"
    /\ \/ /\ orig_cols \in VariantHeaders
          /\ df_raw = VariantTable
       \/ \E w \in BOOLEAN :
             /\ orig_cols = PlainHeader(w)
             /\ \/ df_raw \in Tables(DatedRows(w))
                \/ \E t \in Tables(TradeRows(w)) \cup Tables(PricedRows(w)) :
                      df_raw = Redated(t)
    /\ col = [r \in Roles |-> None]
    /\ missing = <<>>
    /\ is_inr = <<>>
    /\ df_non_inr = <<>>
    /\ mirrored = <<>>
    /\ final_df = <<>>
    /\ output = "none"
    /\ msgs = {}

\* "Detect columns using flexible matching"
DetectCols ==
    /\ pc = "uploaded"
    /\ col' = DetectColumns(orig_cols)
    /\ pc' = "detected"
    /\ UNCHANGED <<orig_cols, df_raw, missing, is_inr, df_non_inr, mirrored,
                   final_df, output, msgs>>

\* "Validate required columns": some required role is unbound; st.error with
\* the joined list, st.warning, st.stop()
HaltMissing ==
    /\ pc = "detected"
    /\ MissingRoles(col) # <<>>
    /\ missing' = MissingRoles(col)
    /\ msgs' = msgs \cup {"error_missing_columns", "warning_rename_headers"}
    /\ pc' = "halted"
    /\ UNCHANGED <<orig_cols, df_raw, col, is_inr, df_non_inr, mirrored, final_df, output>>

\* no required role is unbound: "Separate INR pairs and non-INR pairs"
Partition ==
    /\ pc = "detected"
    /\ MissingRoles(col) = <<>>
    /\ missing' = <<>>
    /\ is_inr' = IsInrMask(df_raw)
    /\ df_non_inr' = SelectRows(df_raw, IsInrMask(df_raw), FALSE)
    /\ pc' = "partitioned"
    /\ UNCHANGED <<orig_cols, df_raw, col, mirrored, final_df, output, msgs>>

\* "if df_non_inr.empty": st.info, the original table offered for download,
\* st.stop()
NothingToMirror ==
    /\ pc = "partitioned"
    /\ df_non_inr = <<>>
    /\ msgs' = msgs \cup {"info_nothing_to_mirror"}
    /\ final_df' = df_raw
    /\ output' = "original"
    /\ pc' = "stopped"
    /\ UNCHANGED <<orig_cols, df_raw, col, missing, is_inr, df_non_inr, mirrored>>

\* "Prepare mirrored rows", "Flip buy/sell", "Keep quantity same"
PrepareMirrored ==
    /\ pc = "partitioned"
    /\ df_non_inr # <<>>
    /\ mirrored' = [i \in DOMAIN df_non_inr |-> MirrorRow(df_non_inr[i])]
    /\ pc' = "mirrored"
    /\ UNCHANGED <<orig_cols, df_raw, col, missing, is_inr, df_non_inr, final_df,
                   output, msgs>>

\* "if usd_col": price and total converted.  to_numeric with errors="coerce"
\* raises on no cell, so the except branch and its warning are not taken.
ConvertToInr ==
    /\ pc = "mirrored"
    /\ col["usd_inr"] # None
    /\ mirrored' = [i \in DOMAIN mirrored |-> ConvertRow(mirrored[i])]
    /\ pc' = "converted"
    /\ UNCHANGED <<orig_cols, df_raw, col, missing, is_inr, df_non_inr, final_df,
                   output, msgs>>

\* the else branch without its warning
NoRateColumnSilent ==
    /\ pc = "mirrored"
    /\ col["usd_inr"] = None
    /\ pc' = "converted"
    /\ UNCHANGED <<orig_cols, df_raw, col, missing, is_inr, df_non_inr, mirrored,
                   final_df, output, msgs>>

\* the else branch: no rate column, st.warning
NoRateColumn ==
    /\ pc = "mirrored"
    /\ col["usd_inr"] = None
    /\ msgs' = msgs \cup {"warning_no_rate_column"}
    /\ pc' = "converted"
    /\ UNCHANGED <<orig_cols, df_raw, col, missing, is_inr, df_non_inr, mirrored,
                   final_df, output>>

\* "Combine", "Try sorting by date if possible", the download and st.success.
\* to_datetime with errors="coerce" raises on no cell, so the sort is
\* always carried out.
CombineAndSort ==
    /\ pc = "converted"
    /\ LET parsed == ParseDates(Concat(df_raw, mirrored))
       IN  \E order \in SortOrders(parsed, DOMAIN parsed) :
              final_df' = Take(parsed, order)
    /\ output' = "mirrored"
    /\ msgs' = msgs \cup {"success_processing_complete"}
    /\ pc' = "done"
    /\ UNCHANGED <<orig_cols, df_raw, col, missing, is_inr, df_non_inr, mirrored>>

Next ==
    \/ DetectCols
    \/ HaltMissing
    \/ Partition
    \/ NothingToMirror
    \/ PrepareMirrored
    \/ ConvertToInr
    \/ NoRateColumn
    \/ CombineAndSort

Spec == Init /\ [][Next]_vars

TypeOK ==
    /\ pc \in {"uploaded", "detected", "halted", "partitioned", "stopped",
               "mirrored", "converted", "done"}
    /\ output \in {"none", "original", "mirrored"}
    /\ Len(is_inr) \in {0, Len(df_raw)}

(***************************************************************************)
(* Properties                                                              *)
(***************************************************************************)
Count(seq, x) == Cardinality({i \in DOMAIN seq : seq[i] = x})

Min(S) == CHOOSE x \in S : \A y \in S : x <= y

\* the cells of a row under the bound roles
MarketOf(row) == Cell(row, col["market"])
DateOf(row)   == Cell(row, col["date"])
TypeOf(row)   == Cell(row, col["trade_type"])
QtyOf(row)    == Cell(row, col["quantity"])
PriceOf(row)  == Cell(row, col["price"])
TotalOf(row)  == Cell(row, col["total"])
RateOf(row)   == Cell(row, col["usd_inr"])

\* a cell that holds a number, as a number or as decimal text
IsNumeric(c) == c.t = "num" \/ (c.t = "str" /\ IsDigits(c.v))
NumVal(c) == IF c.t = "num" THEN c.v ELSE DigitsValue(c.v)

\* The row as it stands in the mirrored download: its date cell parsed
\* when it parses, every other cell as uploaded.
Dated(row) == WithCell(row, col["date"], ToDatetime(DateOf(row)))

NonInrRows == {i \in DOMAIN df_raw : ~EndsWith(Upper(AsStr(MarketOf(df_raw[i]))), INR)}

\* C1: when the six required roles are bound, the output has
\* count(input) + count(non-INR input rows) rows: every input row is in it
\* as often as in the input plus as often as it was derived as a mirrored
\* row, and nothing is dropped by the conversion or the date sort.
C1_RowCount ==
    /\ pc \in {"done", "stopped"} <=> output # "none"
    /\ output # "none" =>
        /\ Len(final_df) = Len(df_raw) + Cardinality(NonInrRows)
        /\ Len(mirrored) = Cardinality(NonInrRows)
        /\ LET inp == IF output = "mirrored" THEN [i \in DOMAIN df_raw |-> Dated(df_raw[i])]
                      ELSE df_raw
               mir == [i \in DOMAIN mirrored |-> Dated(mirrored[i])]
           IN  \A k \in DOMAIN final_df :
                  Count(final_df, final_df[k]) = Count(inp, final_df[k]) + Count(mir, final_df[k])

\* C1 witness: a finished run over two rows, one of them non-INR, one of
\* them with a date that does not parse, and three rows in the output.
C1_Witness ==
    /\ pc = "done"
    /\ Len(df_raw) = 2
    /\ Cardinality(NonInrRows) = 1
    /\ \E i \in DOMAIN df_raw : ToDatetime(DateOf(df_raw[i])) = NaN
    /\ Len(final_df) = 3

\* C2: a row whose market, upper-cased and trimmed, ends with INR gets no
\* mirrored row and is in the output with every field unchanged (a date
\* that parses may be shown parsed).
C2_InrRowsPassThrough ==
    output # "none" =>
        \A i \in DOMAIN df_raw :
            EndsWith(Strip(Upper(AsStr(MarketOf(df_raw[i])))), INR) =>
                /\ is_inr[i]
                /\ \E k \in DOMAIN final_df :
                      \/ final_df[k] = df_raw[i]
                      \/ /\ final_df[k] = Dated(df_raw[i])
                         /\ DateOf(final_df[k]) # NaN

\* C3: with the rate column bound and price, total and rate numeric in
\* every non-INR row, each mirrored row has price = price * rate,
\* total = total * rate, rate 1 and the original quantity, and the original
\* row is in the output with its own price, total and rate.
C3_ConversionExact ==
    (/\ pc \in {"converted", "done"}
     /\ col["usd_inr"] # None
     /\ \A i \in DOMAIN df_non_inr :
           /\ IsNumeric(PriceOf(df_non_inr[i]))
           /\ IsNumeric(TotalOf(df_non_inr[i]))
           /\ IsNumeric(RateOf(df_non_inr[i])))
    =>
        /\ Len(mirrored) = Len(df_non_inr)
        /\ \A i \in DOMAIN mirrored :
              LET o == df_non_inr[i]
              IN  /\ PriceOf(mirrored[i]) = NumCell(NumVal(PriceOf(o)) * NumVal(RateOf(o)))
                  /\ TotalOf(mirrored[i]) = NumCell(NumVal(TotalOf(o)) * NumVal(RateOf(o)))
                  /\ RateOf(mirrored[i]) = NumCell(1)
                  /\ QtyOf(mirrored[i]) = QtyOf(o)
                  /\ pc = "done" =>
                        \E k \in DOMAIN final_df :
                           /\ final_df[k] = Dated(o)
                           /\ PriceOf(final_df[k]) = PriceOf(o)
                           /\ TotalOf(final_df[k]) = TotalOf(o)
                           /\ RateOf(final_df[k]) = RateOf(o)

\* C3 witness: BTC-USDT BUY, quantity 2, price 50000, total 100000, rate 83
\* has been mirrored as USDTINR SELL, quantity 2, price 4150000,
\* total 8300000, rate 1, and the run is finished.
C3_Witness ==
    /\ pc = "done"
    /\ col["usd_inr"] # None
    /\ \E i \in DOMAIN mirrored :
          /\ MarketOf(df_non_inr[i]) = StrCell(<<"B","T","C","-","U","S","D","T">>)
          /\ TypeOf(df_non_inr[i]) = StrCell(<<"B","U","Y">>)
          /\ QtyOf(df_non_inr[i]) = NumCell(2)
          /\ PriceOf(df_non_inr[i]) = NumCell(50000)
          /\ TotalOf(df_non_inr[i]) = NumCell(100000)
          /\ RateOf(df_non_inr[i]) = NumCell(83)
          /\ MarketOf(mirrored[i]) = StrCell(<<"U","S","D","T","I","N","R">>)
          /\ TypeOf(mirrored[i]) = StrCell(<<"S","E","L","L">>)
          /\ QtyOf(mirrored[i]) = NumCell(2)
          /\ PriceOf(mirrored[i]) = NumCell(4150000)
          /\ TotalOf(mirrored[i]) = NumCell(8300000)
          /\ RateOf(mirrored[i]) = NumCell(1)
          /\ \E k \in DOMAIN final_df : final_df[k] = mirrored[i]
          /\ \E k \in DOMAIN final_df : final_df[k] = df_non_inr[i]

\* the consequences C4 names of an unbound usd_inr role
NoRateOutcome ==
    /\ "warning_no_rate_column" \in msgs
    /\ output # "none"
    /\ Len(mirrored) = Len(df_non_inr)
    /\ \A i \in DOMAIN mirrored :
          /\ PriceOf(mirrored[i]) = PriceOf(df_non_inr[i])
          /\ TotalOf(mirrored[i]) = TotalOf(df_non_inr[i])

\* C4 as stated: whenever the usd_inr role is unbound (the required roles
\* being bound), a finished run has left every mirrored price and total as
\* in the original row, has produced the degraded-conversion warning and
\* has produced an output table.
C4_AsStated ==
    (pc \in {"done", "stopped"} /\ col["usd_inr"] = None) => NoRateOutcome

\* C4 amended: the same, for tables with at least one non-INR row.
C4_NoRateColumn ==
    (pc \in {"done", "stopped"} /\ col["usd_inr"] = None /\ NonInrRows # {})
        => (pc = "done" /\ output = "mirrored" /\ NoRateOutcome)

\* C4 witness: a finished run without a rate column that mirrored a row
\* and warned.
C4_Witness ==
    /\ pc = "done"
    /\ col["usd_inr"] = None
    /\ mirrored # <<>>
    /\ "warning_no_rate_column" \in msgs
    /\ PriceOf(mirrored[1]) = NumCell(50000)

\* the normalized candidates of every role, and the normalized labels of
\* the uploaded header
NormalizedPatterns ==
    [r \in Roles |-> [j \in DOMAIN Patterns(r) |-> clean_name(Patterns(r)[j])]]

NormalizedCols == [i \in DOMAIN orig_cols |-> clean_name(orig_cols[i])]

\* the required roles no column matches, told from the header alone
UnmatchedRequired ==
    LET cc == NormalizedCols
    IN  {r \in Range(required) :
            \A i \in DOMAIN cc : \A j \in DOMAIN NormalizedPatterns[r] :
                cc[i] # NormalizedPatterns[r][j]}

\* C5: if a required role is unbound the run halts before partitioning or
\* mirroring, with no output table and an error that lists every unbound
\* required role; if none is unbound there is no missing-columns halt.
C5_MissingColumns ==
    pc \notin {"uploaded", "detected"} =>
        LET unbound == UnmatchedRequired
        IN
        IF unbound # {}
        THEN /\ pc = "halted"
             /\ "error_missing_columns" \in msgs
             /\ Range(missing) = unbound
             /\ Len(missing) = Cardinality(unbound)
             /\ output = "none"
             /\ is_inr = <<>> /\ df_non_inr = <<>> /\ mirrored = <<>> /\ final_df = <<>>
        ELSE /\ pc # "halted"
             /\ "error_missing_columns" \notin msgs
             /\ missing = <<>>

\* C5 witness: a halt that reports two unbound roles, quantity among them,
\* over a table that has rows.
C5_Witness ==
    /\ pc = "halted"
    /\ Len(missing) >= 2
    /\ "quantity" \in Range(missing)
    /\ df_raw # <<>>

\* a non-INR row one of whose price, total and rate cells is text that is
\* not a number
CoercionFails(row) ==
    \E c \in {PriceOf(row), TotalOf(row), RateOf(row)} : c.t = "str" /\ ~IsNumeric(c)

\* C6: with the rate column bound and a price, total or rate of some
\* non-INR row that is not numeric, the affected mirrored fields are the
\* missing-value marker, the warning that mirrored price/total may be
\* missing is shown, and the run still converts the other rows and ends
\* with an output.
C6_CoercionWarning ==
    (/\ pc = "done"
     /\ col["usd_inr"] # None
     /\ \E i \in DOMAIN df_non_inr : CoercionFails(df_non_inr[i]))
    =>
        /\ output = "mirrored"
        /\ \A i \in DOMAIN mirrored :
              LET o == df_non_inr[i]
              IN  /\ (~IsNumeric(PriceOf(o)) \/ ~IsNumeric(RateOf(o)))
                        => PriceOf(mirrored[i]) = NaN
                  /\ (~IsNumeric(TotalOf(o)) \/ ~IsNumeric(RateOf(o)))
                        => TotalOf(mirrored[i]) = NaN
                  /\ (IsNumeric(PriceOf(o)) /\ IsNumeric(RateOf(o)))
                        => PriceOf(mirrored[i]) = NumCell(NumVal(PriceOf(o)) * NumVal(RateOf(o)))
        /\ "warning_values_may_be_nan" \in msgs

\* whether the rows of df are in ascending order of their date cells
SortedByDate(df) ==
    \A k \in DOMAIN df : \A l \in DOMAIN df :
        k < l => DateOf(df[k]).v <= DateOf(df[l]).v

\* C7: a finished mirrored output is sorted by parsed date ascending when
\* every date parses; when some date does not parse it is exactly the
\* concatenation (the original rows in input order, then the mirrored
\* rows), and a date-sort-skipped warning is reported.
C7_DateSortOrFallback ==
    pc = "done" =>
        LET cat == Concat(df_raw, mirrored)
        IN  IF \A i \in DOMAIN cat : ToDatetime(DateOf(cat[i])) # NaN
            THEN /\ \A k \in DOMAIN final_df : DateOf(final_df[k]).t = "ts"
                 /\ SortedByDate(final_df)
            ELSE /\ final_df \in {cat, ParseDates(cat)}
                 /\ "warning_date_sort_skipped" \in msgs

\* the ordered list of quote currencies C8 names
ClaimedQuotes == << <<"U","S","D","T">>, <<"B","U","S","D">>, <<"U","S","D">>,
                    <<"E","T","H">>, <<"B","T","C">>, <<"I","N","R">> >>

\* q is the quote C8 describes for the upper-cased, trimmed symbol s
IsClaimedQuote(s, q) ==
    IF \E i \in DOMAIN s : s[i] = "-"
    THEN /\ \A i \in DOMAIN q : q[i] # "-"
         /\ Len(q) < Len(s)
         /\ s[Len(s) - Len(q)] = "-"
         /\ SubSeq(s, Len(s) - Len(q) + 1, Len(s)) = q
    ELSE LET J == {j \in DOMAIN ClaimedQuotes : EndsWith(s, ClaimedQuotes[j])}
         IN  IF J # {} THEN q = ClaimedQuotes[Min(J)]
             ELSE q = LastN(s, 3)

\* C8: the market of every mirrored row is the quote of the original
\* symbol (after the last "-", else the first listed currency the symbol
\* ends with, else its last three characters) followed by INR; and
\* extract_quote gives USDT for BTC-USDT, BTC for ETHBTC, XYZ for XYZ.
C8_ExtractQuote ==
    /\ pc \in {"mirrored", "converted", "done"} =>
          /\ Len(mirrored) = Len(df_non_inr)
          /\ \A i \in DOMAIN mirrored :
                LET s == Strip(Upper(AsStr(MarketOf(df_non_inr[i]))))
                    m == MarketOf(mirrored[i])
                IN  /\ m.t = "str"
                    /\ EndsWith(m.v, INR)
                    /\ IsClaimedQuote(s, SubSeq(m.v, 1, Len(m.v) - 3))
                    /\ m.v = extract_quote(AsStr(MarketOf(df_non_inr[i]))) \o INR
    /\ extract_quote(<<"B","T","C","-","U","S","D","T">>) = <<"U","S","D","T">>
    /\ extract_quote(<<"E","T","H","B","T","C">>) = <<"B","T","C">>
    /\ extract_quote(<<"X","Y","Z">>) = <<"X","Y","Z">>

\* C8 witness: a finished run that mirrored ETHBTC as BTCINR (a listed
\* suffix) and XYZ as XYZINR (the three-character fallback).
C8_Witness ==
    /\ pc = "done"
    /\ Len(mirrored) = 2
    /\ MarketOf(df_non_inr[1]) = StrCell(<<"E","T","H","B","T","C">>)
    /\ MarketOf(mirrored[1]) = StrCell(<<"B","T","C","I","N","R">>)
    /\ MarketOf(df_non_inr[2]) = StrCell(<<"X","Y","Z">>)
    /\ MarketOf(mirrored[2]) = StrCell(<<"X","Y","Z","I","N","R">>)

\* the columns, among the normalized labels cc, that equal the normalized
\* j-th candidate of role r
MatchingColumns(cc, r, j) == {i \in DOMAIN cc : cc[i] = NormalizedPatterns[r][j]}

\* C9: each role is bound to the leftmost column that equals, after
\* normalization, the earliest candidate of the role that any column
\* equals; a role no column equals is unbound; and a header with such a
\* column for every required role does not halt.
C9_HeaderResolution ==
    pc # "uploaded" =>
        LET cc == NormalizedCols
        IN
        /\ \A r \in Roles :
              LET J == {j \in DOMAIN Patterns(r) : MatchingColumns(cc, r, j) # {}}
              IN  IF J = {} THEN col[r] = None
                  ELSE col[r] = orig_cols[Min(MatchingColumns(cc, r, Min(J)))]
        /\ (\A r \in Range(required) :
               \E j \in DOMAIN Patterns(r) : MatchingColumns(cc, r, j) # {})
              => pc # "halted"
        /\ <<"Q","u","a","n","t","i","t","y","!">> \in Range(orig_cols)
              => col["quantity"] = <<"Q","u","a","n","t","i","t","y","!">>
        /\ <<"Q","u","a","n","t","i","t","i","e","s">> \in Range(orig_cols)
              => col["quantity"] = None
        /\ <<"F","i","n","a","l"," "," ","P","r","i","c","e">> \in Range(orig_cols)
              => col["price"] = <<"F","i","n","a","l"," "," ","P","r","i","c","e">>

\* C9 witness: "Pair" stands left of "Market" and the market role is bound
\* to "Market", the earlier candidate; "Dated" is not taken for the date
\* role.
C9_Witness ==
    /\ pc = "halted"
    /\ orig_cols[1] = <<"P","a","i","r">>
    /\ orig_cols[2] = <<"M","a","r","k","e","t">>
    /\ col["market"] = <<"M","a","r","k","e","t">>
    /\ orig_cols[3] = <<"D","a","t","e","d">>
    /\ col["date"] = None

\* C10: the trade type of a mirrored row is BUY for SELL and SELL for BUY
\* in any case of letters, and any other value upper-cased; flipping the
\* flipped BUY or SELL again gives back the starting value; the original
\* row's trade type is not altered.
C10_TradeTypeFlip ==
    pc \in {"mirrored", "converted", "done"} =>
        /\ Len(mirrored) = Len(df_non_inr)
        /\ \A i \in DOMAIN mirrored :
              LET u == Upper(AsStr(TypeOf(df_non_inr[i])))
                  m == TypeOf(mirrored[i])
              IN  /\ u = <<"S","E","L","L">> => m = StrCell(<<"B","U","Y">>)
                  /\ u = <<"B","U","Y">> => m = StrCell(<<"S","E","L","L">>)
                  /\ u \notin {<<"B","U","Y">>, <<"S","E","L","L">>} => m = StrCell(u)
                  /\ u \in {<<"B","U","Y">>, <<"S","E","L","L">>} => FlipTradeType(m.v) = u
        /\ pc = "done" =>
              \A i \in DOMAIN df_raw :
                  \E k \in DOMAIN final_df :
                      final_df[k] = Dated(df_raw[i]) /\ TypeOf(final_df[k]) = TypeOf(df_raw[i])

\* C10 witness: a finished run that mirrored a "buy" row as SELL and a
\* "Hold" row as HOLD, the uploaded rows still reading "buy" and "Hold".
C10_Witness ==
    /\ pc = "done"
    /\ Len(mirrored) = 2
    /\ TypeOf(df_non_inr[1]) = StrCell(<<"b","u","y">>)
    /\ TypeOf(mirrored[1]) = StrCell(<<"S","E","L","L">>)
    /\ TypeOf(df_non_inr[2]) = StrCell(<<"H","o","l","d">>)
    /\ TypeOf(mirrored[2]) = StrCell(<<"H","O","L","D">>)
    /\ \E k \in DOMAIN final_df : TypeOf(final_df[k]) = StrCell(<<"b","u","y">>)

====
